---- MODULE Spec2Model ----
(***************************************************************************)
(* Model of the monitoring-and-alerting engine of system-health-monitor    *)
(* (src/src/main.py): the background task check_system_health, the         *)
(* notifier send_slack_alert with its retry loop, create_alert,            *)
(* store_historical_metrics, and the request handlers resolve_alert,       *)
(* test_notification and get_metrics_history that run concurrently with    *)
(* the background task.                                                    *)
(*                                                                         *)
(* Everything runs on one asyncio event loop: a task keeps the loop from   *)
(* the moment it is resumed until its next suspending await                *)
(* (database.execute / database.fetch_one / asyncio.sleep).  requests.post *)
(* and psutil are synchronous calls and do not suspend the task.           *)
(***************************************************************************)
EXTENDS Integers, Sequences, FiniteSets, TLC

\* ------------------------------------------------------------------ bounds
\* Rows the database has room for, over both tables: an insert into a full
\* database raises, like any other failing store operation.
MaxRows == 2
\* The time at which the clock of the timed specification stops.
MaxTime == 120
\* Rows the metadata table has room for.
MaxMeta == 3

\* --------------------------------------------------------------- constants
CPU_THRESHOLD == 80
MEMORY_THRESHOLD == 85
DISK_THRESHOLD == 90
Attempts == 3
LastAttempt == 2
RetryDelay == 1
SleepInterval == 60
SecondsPerMinute == 60

MetricOrder == <<"CPU", "Memory", "Disk">>
MetricTypes == {"CPU", "Memory", "Disk"}

\* The thresholds are read from the environment at import time; the model
\* starts under the defaults or under one other configuration.
ThresholdConfigs ==
    { [CPU |-> CPU_THRESHOLD, Memory |-> MEMORY_THRESHOLD, Disk |-> DISK_THRESHOLD],
      [CPU |-> 90, Memory |-> 50, Disk |-> 50] }

\* Readings psutil may return: none above its default threshold, CPU alone,
\* all three, Memory and Disk without CPU, CPU and Disk without Memory.
Sample(c, m, d) == [CPU |-> c, Memory |-> m, Disk |-> d]
Samples == {Sample(50, 50, 50), Sample(90, 50, 50), Sample(90, 95, 95),
            Sample(50, 95, 95), Sample(90, 50, 95)}

\* Request slots: the handlers of one slot run one after the other, each
\* concurrently with the monitoring task.
Reqs == {"r1"}
\* Slots for POST /api/metadata: two, whose handlers run concurrently.
MetaReqs == {"m1", "m2"}
Tasks == {"loop"} \cup Reqs \cup MetaReqs

VARIABLES
    thresholds,   \* CPU_THRESHOLD / MEMORY_THRESHOLD / DISK_THRESHOLD
    webhook,      \* TRUE iff SLACK_WEBHOOK_URL is set
    alerts,       \* alerts_table: row i has id i
    history,      \* metrics_history_table
    lpc,          \* where check_system_health is
    lidx,         \* which of the three checks of the cycle is next
    metrics,      \* the sample of the current cycle
    cycle,        \* what the current cycle has done so far
    call,         \* per task, its send_slack_alert call
    req,          \* per request slot, the handler that runs in it
    environ,      \* what the environment variables of the process hold
    utcoffset,    \* local time minus UTC on the host, in seconds
    now,          \* the time (UTC), in seconds
    wake,         \* per task, when its asyncio.sleep is due (0: not sleeping)
    span,         \* when the last cycle started and when the last one ended
    resolved_sent, \* ids whose status=resolved notification was delivered
    metadata_table, \* metadata_table
    mreq          \* per metadata request slot, the update_metadata that runs in it

vars == <<environ, utcoffset, now, thresholds, webhook, alerts, history, lpc, lidx,
          metrics, cycle, call, req, wake, span, resolved_sent, metadata_table, mreq>>

\* What the process reads from its environment when the module is imported;
\* nothing assigns it afterwards.
config == <<environ, utcoffset, thresholds, webhook>>

\* The metadata table and the handlers that work on it.
meta == <<metadata_table, mreq>>

NoMetrics == [CPU |-> 0, Memory |-> 0, Disk |-> 0]
NoAlert == [id |-> 0, metric_type |-> "", threshold |-> 0, current_value |-> 0, status |-> ""]
IdleCall == [state |-> "idle", alert_data |-> NoAlert, attempt |-> 0, trace |-> <<>>, slept |-> 0]
\* A request slot: the handler, where it is, its path parameter, the status the
\* targeted row had when the UPDATE ran, the exception raised inside the
\* handler's try block, the HTTP status answered, and how many times
\* send_slack_alert was called.
IdleReq ==
    [op |-> "none", pc |-> "idle", alert_id |-> 0, prior |-> "", raised |-> "",
     resp |-> 0, notifies |-> 0, cutoff_time |-> 0, results |-> <<>>]

\* ------------------------------------------------------------------- clock
\* datetime.utcnow() and datetime.now(), both naive: the second is the local
\* time of the host.
UtcNow == now
LocalNow == now + utcoffset

\* No task sleeps at the start.
NoTimers == [t \in Tasks |-> 0]

\* A metadata slot: where the handler is, its request body, what the lookup
\* found, and the HTTP status answered.
NoBody == [name |-> "", environment |-> "", location |-> ""]
IdleMeta == [pc |-> "idle", body |-> NoBody, existing |-> FALSE, resp |-> 0]

\* ------------------------------------------------------------- event loop
\* A call that is executing synchronous code (not suspended in asyncio.sleep).
\* "escaped" stands for an exception leaving send_slack_alert; the function's
\* "except Exception" leaves no way to it.
CallRuns(t) == call[t].state \in {"posting", "raised", "done", "escaped"}

\* The monitoring task is suspended in "Creating" and "Persisting" (awaiting
\* database.execute), in "Suspended" (asyncio.sleep(60)) and in the sleep of a
\* notification; get_system_metrics has no suspending await.
LoopRuns ==
    \/ lpc \in {"Sampling", "Evaluating", "Sleeping"}
    \/ lpc = "Notifying" /\ CallRuns("loop")

ReqRuns(r) ==
    \/ req[r].pc = "notify" /\ CallRuns(r)
    \/ req[r].pc = "done"

\* The tasks that hold the event loop: at most one, and no other task is
\* resumed while it does.
\* update_metadata is suspended in its fetch_one and in its execute.
MetaRuns(q) == mreq[q].pc = "done"

Running ==
    {t \in Tasks : IF t = "loop" THEN LoopRuns
                   ELSE IF t \in Reqs THEN ReqRuns(t) ELSE MetaRuns(t)}
MayRun(t) == Running \subseteq {t}


\* ---------------------------------------------------------------- notifier
\* The function without its test of SLACK_WEBHOOK_URL.
send_slack_alert_unchecked(alert_data) ==
    [IdleCall EXCEPT !.state = "posting", !.alert_data = alert_data]

\* send_slack_alert up to its first attempt: without a webhook URL it prints
\* a warning and returns; otherwise it builds the message and enters the
\* retry loop with attempt = 0.
send_slack_alert(alert_data) ==
    IF ~webhook
    THEN [IdleCall EXCEPT !.state = "done", !.alert_data = alert_data]
    ELSE [IdleCall EXCEPT !.state = "posting", !.alert_data = alert_data]

\* The last-attempt test compared with the length of the range instead of its
\* last value: it never holds.
IsLastAttempt_length(attempt) == attempt = Attempts

\* "if attempt == 2: raise e"
IsLastAttempt(attempt) == attempt = LastAttempt

\* The loop without its "break": a successful POST is followed by the next
\* attempt.
PostOutcome_nobreak(c, ok) ==
    LET tr == Append(c.trace, IF ok THEN "post_ok" ELSE "post_fail") IN
    IF ok THEN [c EXCEPT !.trace = tr, !.attempt = c.attempt + 1,
                         !.state = IF c.attempt + 1 < Attempts THEN "posting" ELSE "done"]
    ELSE IF IsLastAttempt(c.attempt) THEN [c EXCEPT !.trace = tr, !.state = "raised"]
    ELSE [c EXCEPT !.trace = tr, !.state = "sleeping"]

\* One pass of the body of "for attempt in range(3)": the POST either succeeds
\* (break), or fails on the last attempt (raise e), or fails and is followed
\* by asyncio.sleep(1).
PostOutcome(c, ok) ==
    LET tr == Append(c.trace, IF ok THEN "post_ok" ELSE "post_fail") IN
    IF ok THEN [c EXCEPT !.trace = tr, !.state = "done"]
    ELSE IF IsLastAttempt(c.attempt) THEN [c EXCEPT !.trace = tr, !.state = "raised"]
    ELSE [c EXCEPT !.trace = tr, !.state = "sleeping"]

\* The sleep is over: the for loop takes its next value, and ends if range(3)
\* is exhausted.
AfterSleep(c) ==
    [c EXCEPT !.trace = Append(c.trace, "sleep"),
              !.slept = c.slept + RetryDelay,
              !.attempt = c.attempt + 1,
              !.state = IF c.attempt + 1 < Attempts THEN "posting" ELSE "done"]

\* "except Exception as e: print(...)": the error of the last attempt is
\* logged and the function returns.
OuterExcept(c) == [c EXCEPT !.state = "done"]

\* requests.post raises for a URL it cannot parse, as it does when the
\* request fails or the answer is not a 2xx (raise_for_status).
PostResults == IF environ = "bad_webhook" THEN {FALSE} ELSE BOOLEAN

\* The ids whose status=resolved message reached the webhook, after call c
\* made a POST with result ok.
ResolvedSent(c, ok) ==
    IF ok /\ c.alert_data.status = "resolved"
    THEN resolved_sent \cup {c.alert_data.id}
    ELSE resolved_sent

NotifyPost(t) ==
    /\ MayRun(t)
    /\ call[t].state = "posting"
    /\ \E ok \in PostResults :
          /\ call' = [call EXCEPT ![t] = PostOutcome(call[t], ok)]
          /\ resolved_sent' = ResolvedSent(call[t], ok)
    /\ wake' = [wake EXCEPT ![t] = IF call'[t].state = "sleeping"
                                    THEN now + RetryDelay ELSE @]
    /\ UNCHANGED <<config, meta, now, alerts, history, lpc, lidx, metrics, cycle, req, span>>

NotifyRetry(t) ==
    /\ MayRun(t)
    /\ call[t].state = "sleeping"
    /\ call' = [call EXCEPT ![t] = AfterSleep(call[t])]
    /\ wake' = [wake EXCEPT ![t] = 0]
    /\ UNCHANGED <<config, meta, now, alerts, history, lpc, lidx, metrics, cycle, req, span,
                   resolved_sent>>

NotifyExcept(t) ==
    /\ MayRun(t)
    /\ call[t].state = "raised"
    /\ call' = [call EXCEPT ![t] = OuterExcept(call[t])]
    /\ UNCHANGED <<config, meta, now, alerts, history, lpc, lidx, metrics, cycle, req, wake,
                   span, resolved_sent>>

\* TRUE iff the call delivered its message (some POST succeeded).
Delivered(c) == \E i \in 1..Len(c.trace) : c.trace[i] = "post_ok"

\* -------------------------------------------------------- monitoring loop
\* An entry of the cycle's log: what was done, for which metric, whether it
\* succeeded, and the id of the row an insert into alerts_table created.
Event(op, m, ok, id) == [op |-> op, metric_type |-> m, ok |-> ok, id |-> id]

\* The comparison taken as "at or above the threshold".
Breach_atleast(m) == metrics[m] >= thresholds[m]

Breach(m) == metrics[m] > thresholds[m]

HasRoom == Len(alerts) + Len(history) < MaxRows

\* Where the cycle goes once check number lidx is over.
NextPc == IF lidx < Len(MetricOrder) THEN "Evaluating" ELSE "Persisting"
NextIdx == IF lidx < Len(MetricOrder) THEN lidx + 1 ELSE lidx

\* startup(): the tables exist, the database is connected, the task is created.
\* float() of a threshold that is no number raises while the module is
\* imported, and then the application never starts.
Startup ==
    /\ lpc = "Idle"
    /\ MayRun("loop")
    /\ environ # "bad_threshold"
    /\ lpc' = "Sampling"
    /\ span' = [span EXCEPT !.started = now]
    /\ UNCHANGED <<config, meta, now, alerts, history, lidx, metrics, cycle, call, req, wake,
                   resolved_sent>>

\* get_system_metrics(): a sample, or HTTPException(500), which the
\* "except Exception" of the cycle catches.
SampleOk ==
    /\ lpc = "Sampling"
    /\ MayRun("loop")
    /\ \E s \in Samples : metrics' = s
    /\ cycle' = <<Event("sample", "", TRUE, 0)>>
    /\ lpc' = "Evaluating"
    /\ lidx' = 1
    /\ UNCHANGED <<config, meta, now, alerts, history, call, req, wake, span, resolved_sent>>

\* The exception of get_system_metrics is not caught by the cycle and ends
\* the task.
SampleFail_uncaught ==
    /\ lpc = "Sampling"
    /\ MayRun("loop")
    /\ metrics' = NoMetrics
    /\ cycle' = <<Event("sample", "", FALSE, 0)>>
    /\ lpc' = "Ended"
    /\ lidx' = 1
    /\ UNCHANGED <<config, meta, now, alerts, history, call, req, wake, span, resolved_sent>>

\* The failure is answered with an empty sample, and the cycle goes on to
\* store it.
SampleFail_stores ==
    /\ lpc = "Sampling"
    /\ MayRun("loop")
    /\ metrics' = NoMetrics
    /\ cycle' = <<Event("sample", "", FALSE, 0)>>
    /\ lpc' = "Persisting"
    /\ lidx' = 1
    /\ UNCHANGED <<config, meta, now, alerts, history, call, req, wake, span, resolved_sent>>

SampleFail ==
    /\ lpc = "Sampling"
    /\ MayRun("loop")
    /\ metrics' = NoMetrics
    /\ cycle' = <<Event("sample", "", FALSE, 0)>>
    /\ lpc' = "Sleeping"
    /\ lidx' = 1
    /\ UNCHANGED <<config, meta, now, alerts, history, call, req, wake, span, resolved_sent>>

\* A breach is passed over while an active alert of its metric is stored.
Evaluate_dedup ==
    /\ lpc = "Evaluating"
    /\ MayRun("loop")
    /\ IF /\ Breach(MetricOrder[lidx])
          /\ ~\E i \in DOMAIN alerts : /\ alerts[i].metric_type = MetricOrder[lidx]
                                        /\ alerts[i].status = "active"
       THEN lpc' = "Creating" /\ lidx' = lidx
       ELSE lpc' = NextPc /\ lidx' = NextIdx
    /\ UNCHANGED <<config, meta, now, alerts, history, metrics, cycle, call, req, wake, span,
                   resolved_sent>>

\* "if metrics[m]['percent'] > m_THRESHOLD: await create_alert(...)"
Evaluate ==
    /\ lpc = "Evaluating"
    /\ MayRun("loop")
    /\ IF Breach(MetricOrder[lidx])
       THEN lpc' = "Creating" /\ lidx' = lidx
       ELSE lpc' = NextPc /\ lidx' = NextIdx
    /\ UNCHANGED <<config, meta, now, alerts, history, metrics, cycle, call, req, wake, span,
                   resolved_sent>>

\* The row create_alert inserts.
NewAlert(m) ==
    [metric_type |-> m, threshold |-> thresholds[m],
     current_value |-> metrics[m], status |-> "active"]

\* create_alert: the insert succeeded, alert_data is built with the new id and
\* send_slack_alert is called.
CreateInsertOk ==
    /\ lpc = "Creating"
    /\ MayRun("loop")
    /\ HasRoom
    /\ LET m == MetricOrder[lidx]
           id == Len(alerts) + 1
       IN /\ alerts' = Append(alerts, NewAlert(m))
          /\ call' = [call EXCEPT !["loop"] =
                        send_slack_alert([id |-> id, metric_type |-> m,
                                          threshold |-> thresholds[m],
                                          current_value |-> metrics[m],
                                          status |-> "active"])]
          /\ cycle' = Append(cycle, Event("insert", m, TRUE, id))
    /\ lpc' = "Notifying"
    /\ UNCHANGED <<config, meta, now, history, lidx, metrics, req, wake, span, resolved_sent>>

\* The try block of create_alert ends after the insert: the notification is
\* sent whether or not the row was stored.
CreateInsertFail_notifies ==
    /\ lpc = "Creating"
    /\ MayRun("loop")
    /\ LET m == MetricOrder[lidx]
       IN call' = [call EXCEPT !["loop"] =
                     send_slack_alert([id |-> 0, metric_type |-> m,
                                       threshold |-> thresholds[m],
                                       current_value |-> metrics[m],
                                       status |-> "active"])]
    /\ cycle' = Append(cycle, Event("insert", MetricOrder[lidx], FALSE, 0))
    /\ lpc' = "Notifying"
    /\ UNCHANGED <<config, meta, now, alerts, history, lidx, metrics, req, wake, span,
                   resolved_sent>>

\* The failure of the insert leaves create_alert and is caught by the cycle's
\* "except Exception", which skips the rest of the cycle.
CreateInsertFail_propagates ==
    /\ lpc = "Creating"
    /\ MayRun("loop")
    /\ cycle' = Append(cycle, Event("insert", MetricOrder[lidx], FALSE, 0))
    /\ lpc' = "Sleeping"
    /\ lidx' = lidx
    /\ UNCHANGED <<config, meta, now, alerts, history, metrics, call, req, wake, span,
                   resolved_sent>>

\* create_alert: database.execute raised; "except Exception" prints and
\* returns, so send_slack_alert is not called.
CreateInsertFail ==
    /\ lpc = "Creating"
    /\ MayRun("loop")
    /\ cycle' = Append(cycle, Event("insert", MetricOrder[lidx], FALSE, 0))
    /\ lpc' = NextPc
    /\ lidx' = NextIdx
    /\ UNCHANGED <<config, meta, now, alerts, history, metrics, call, req, wake, span,
                   resolved_sent>>

\* A notification that was not delivered raises out of create_alert, and the
\* cycle's "except Exception" skips the rest of the cycle.
CreateReturn_raises ==
    /\ lpc = "Notifying"
    /\ MayRun("loop")
    /\ call["loop"].state = "done"
    /\ cycle' = Append(cycle, Event("notify", MetricOrder[lidx], Delivered(call["loop"]),
                                   call["loop"].alert_data.id))
    /\ call' = [call EXCEPT !["loop"] = IdleCall]
    /\ lpc' = IF Delivered(call["loop"]) \/ ~webhook THEN NextPc ELSE "Sleeping"
    /\ lidx' = IF Delivered(call["loop"]) \/ ~webhook THEN NextIdx ELSE lidx
    /\ UNCHANGED <<config, meta, now, alerts, history, metrics, req, wake, span, resolved_sent>>

\* send_slack_alert returned to create_alert, which prints and returns.
CreateReturn ==
    /\ lpc = "Notifying"
    /\ MayRun("loop")
    /\ call["loop"].state = "done"
    /\ cycle' = Append(cycle, Event("notify", MetricOrder[lidx], Delivered(call["loop"]),
                                   call["loop"].alert_data.id))
    /\ call' = [call EXCEPT !["loop"] = IdleCall]
    /\ lpc' = NextPc
    /\ lidx' = NextIdx
    /\ UNCHANGED <<config, meta, now, alerts, history, metrics, req, wake, span, resolved_sent>>

\* store_historical_metrics: the insert, or its exception printed.
PersistOk ==
    /\ lpc = "Persisting"
    /\ MayRun("loop")
    /\ HasRoom
    /\ history' = Append(history, [timestamp |-> LocalNow,
                                  cpu_percent |-> metrics["CPU"],
                                  memory_percent |-> metrics["Memory"],
                                  disk_percent |-> metrics["Disk"]])
    /\ cycle' = Append(cycle, Event("append", "", TRUE, 0))
    /\ lpc' = "Sleeping"
    /\ UNCHANGED <<config, meta, now, alerts, lidx, metrics, call, req, wake, span,
                   resolved_sent>>

PersistFail ==
    /\ lpc = "Persisting"
    /\ MayRun("loop")
    /\ cycle' = Append(cycle, Event("append", "", FALSE, 0))
    /\ lpc' = "Sleeping"
    /\ UNCHANGED <<config, meta, now, alerts, history, lidx, metrics, call, req, wake, span,
                   resolved_sent>>

\* The next cycle is scheduled 60 seconds after the start of this one.
Suspend_fixedrate ==
    /\ lpc = "Sleeping"
    /\ MayRun("loop")
    /\ lpc' = "Suspended"
    /\ lidx' = 1
    /\ metrics' = NoMetrics
    /\ cycle' = <<>>
    /\ wake' = [wake EXCEPT !["loop"] = span.started + SleepInterval]
    /\ span' = [span EXCEPT !.ended = now]
    /\ UNCHANGED <<config, meta, now, alerts, history, call, req, resolved_sent>>

\* The cycle is over, whatever happened in it: "await asyncio.sleep(60)"
\* suspends the task.  Nothing of the cycle is read again.
Suspend ==
    /\ lpc = "Sleeping"
    /\ MayRun("loop")
    /\ lpc' = "Suspended"
    /\ lidx' = 1
    /\ metrics' = NoMetrics
    /\ cycle' = <<>>
    /\ wake' = [wake EXCEPT !["loop"] = now + SleepInterval]
    /\ span' = [span EXCEPT !.ended = now]
    /\ UNCHANGED <<config, meta, now, alerts, history, call, req, resolved_sent>>

\* The sleep is over and "while True" starts the next cycle.
Sleep ==
    /\ lpc = "Suspended"
    /\ MayRun("loop")
    /\ lpc' = "Sampling"
    /\ wake' = [wake EXCEPT !["loop"] = 0]
    /\ span' = [span EXCEPT !.started = now]
    /\ UNCHANGED <<config, meta, now, alerts, history, lidx, metrics, cycle, call, req,
                   resolved_sent>>

\* -------------------------------------------------------------------- time
\* The sleeps that are not over yet.
Pending == {t \in Tasks : wake[t] > now}

\* A task is suspended in a store operation.
AwaitsStore ==
    \/ lpc \in {"Creating", "Persisting"}
    \/ \E r \in Reqs : req[r].pc \in {"update", "fetch", "select"}
    \/ \E q \in MetaReqs : mreq[q].pc \in {"select", "update", "insert"}

\* Time passes while every task sleeps or is over, up to the next sleep that
\* ends, and by half a sleep interval at most in one step; it does not pass
\* over a sleep that is due.  Synchronous code and store operations last less
\* than the clock can tell: "timestamp=datetime.now()" is evaluated when the
\* insert is built and is the time at which the insert completes.
Elapse ==
    /\ Running = {}
    /\ ~AwaitsStore
    /\ \A t \in Tasks : wake[t] # 0 => wake[t] > now
    /\ LET step == SleepInterval \div 2
           next == IF \E t \in Pending : wake[t] < now + step
                   THEN CHOOSE w \in {wake[t] : t \in Pending} :
                            \A t \in Pending : w <= wake[t]
                   ELSE now + step
       IN /\ next <= MaxTime
          /\ now' = next
    /\ UNCHANGED <<config, meta, alerts, history, lpc, lidx, metrics, cycle, call, req, wake,
                   span, resolved_sent>>

\* asyncio.sleep(60) returns once its 60 seconds are over.
SleepElapsed == now >= wake["loop"] /\ Sleep

\* asyncio.sleep(1) returns once its second is over.
NotifyRetryElapsed(t) == now >= wake[t] /\ NotifyRetry(t)

\* ------------------------------------------------------- request handlers
\* Ids a client may ask to resolve: every id the store can hold and one more.
AlertIds == 1..(MaxRows + 1)

\* A handler can be started in slot r: requests are served once startup() is
\* over, and only while no task holds the event loop.
Free(r) == req[r].pc = "idle" /\ lpc # "Idle" /\ Running = {}

\* The status resolve_alert answers with: 200 when its try block returns, and
\* "except Exception as e: raise HTTPException(status_code=500, ...)" when
\* anything is raised inside it.  HTTPException is an Exception, so the 404
\* raised inside the block is caught here as well.
resolve_response(raised) == IF raised = "" THEN 200 ELSE 500

\* The UPDATE flips the status of the row.
SetResolved_toggle(rows, alert_id) ==
    [i \in DOMAIN rows |->
        IF i = alert_id
        THEN [rows[i] EXCEPT !.status = IF @ = "active" THEN "resolved" ELSE "active"]
        ELSE rows[i]]

\* The UPDATE changes no row.
SetResolved_none(rows, alert_id) == rows

\* "UPDATE alerts SET status = 'resolved' WHERE id = :alert_id"
SetResolved(rows, alert_id) ==
    [i \in DOMAIN rows |->
        IF i = alert_id THEN [rows[i] EXCEPT !.status = "resolved"] ELSE rows[i]]

\* database.execute answers with a true value whatever the UPDATE matched.
RowCount_one(rows, alert_id) == 1

\* What database.execute returns for the UPDATE under the default
\* DATABASE_URL (sqlite): the number of rows the WHERE clause matched,
\* whether or not their status changed.
RowCount(rows, alert_id) == IF alert_id \in DOMAIN rows THEN 1 ELSE 0

\* PUT /api/alerts/{alert_id}/resolve is routed to resolve_alert, which
\* suspends in "await database.execute(query)".
ResolveStart(r, alert_id) ==
    /\ Free(r)
    /\ req' = [req EXCEPT ![r] = [IdleReq EXCEPT !.op = "resolve", !.pc = "update",
                                                 !.alert_id = alert_id]]
    /\ call' = [call EXCEPT ![r] = IdleCall]
    /\ UNCHANGED <<config, meta, now, alerts, history, lpc, lidx, metrics, cycle, wake, span,
                   resolved_sent>>

\* The UPDATE ran.  "if result:" goes on to the fetch; otherwise
\* HTTPException(404) is raised inside the try block.
ResolveUpdate(r) ==
    /\ req[r].pc = "update"
    /\ MayRun(r)
    /\ LET id == req[r].alert_id
           result == RowCount(alerts, id)
           prior == IF id \in DOMAIN alerts THEN alerts[id].status ELSE "absent"
       IN /\ alerts' = SetResolved(alerts, id)
          /\ req' = [req EXCEPT ![r] =
                       IF result # 0
                       THEN [@ EXCEPT !.prior = prior, !.pc = "fetch"]
                       ELSE [@ EXCEPT !.prior = prior, !.pc = "done",
                                      !.raised = "HTTPException(404)",
                                      !.resp = resolve_response("HTTPException(404)")]]
    /\ UNCHANGED <<config, meta, now, history, lpc, lidx, metrics, cycle, call, wake, span,
                   resolved_sent>>

\* database.execute or database.fetch_one raised.
ResolveStoreError(r) ==
    /\ req[r].pc \in {"update", "fetch"}
    /\ MayRun(r)
    /\ req' = [req EXCEPT ![r] = [@ EXCEPT !.pc = "done", !.raised = "StoreError",
                                            !.resp = resolve_response("StoreError")]]
    /\ UNCHANGED <<config, meta, now, alerts, history, lpc, lidx, metrics, cycle, call, wake,
                   span, resolved_sent>>

\* The row was fetched: "if alert: alert_dict = dict(alert);
\* alert_dict['status'] = 'resolved'; await send_slack_alert(alert_dict)".
\* Without a row the handler returns its message at once.
ResolveFetch(r) ==
    /\ req[r].pc = "fetch"
    /\ MayRun(r)
    /\ LET id == req[r].alert_id IN
       IF id \in DOMAIN alerts
       THEN LET alert == alerts[id] IN
            /\ call' = [call EXCEPT ![r] =
                          send_slack_alert([id |-> id, metric_type |-> alert.metric_type,
                                            threshold |-> alert.threshold,
                                            current_value |-> alert.current_value,
                                            status |-> "resolved"])]
            /\ req' = [req EXCEPT ![r] = [@ EXCEPT !.pc = "notify", !.notifies = @ + 1]]
       ELSE /\ call' = call
            /\ req' = [req EXCEPT ![r] = [@ EXCEPT !.pc = "done",
                                                    !.resp = resolve_response("")]]
    /\ UNCHANGED <<config, meta, now, alerts, history, lpc, lidx, metrics, cycle, wake, span,
                   resolved_sent>>

\* An undelivered notification is answered with an error.
ResolveReturn_strict(r) ==
    /\ req[r].op = "resolve"
    /\ req[r].pc = "notify"
    /\ MayRun(r)
    /\ call[r].state = "done"
    /\ req' = [req EXCEPT ![r] =
                 [@ EXCEPT !.pc = "done",
                           !.resp = IF Delivered(call[r]) \/ ~webhook
                                    THEN resolve_response("")
                                    ELSE resolve_response("NotifyError")]]
    /\ UNCHANGED <<config, meta, now, alerts, history, lpc, lidx, metrics, cycle, call, wake,
                   span, resolved_sent>>

\* send_slack_alert returned: {"message": "Alert <id> resolved"}.
ResolveReturn(r) ==
    /\ req[r].op = "resolve"
    /\ req[r].pc = "notify"
    /\ MayRun(r)
    /\ call[r].state = "done"
    /\ req' = [req EXCEPT ![r] = [@ EXCEPT !.pc = "done", !.resp = resolve_response("")]]
    /\ UNCHANGED <<config, meta, now, alerts, history, lpc, lidx, metrics, cycle, call, wake,
                   span, resolved_sent>>

\* The alert test_notification sends.
test_alert ==
    [id |-> 0, metric_type |-> "TEST", threshold |-> 80, current_value |-> 85,
     status |-> "active"]

\* POST /api/test-notification
TestStart(r) ==
    /\ Free(r)
    /\ req' = [req EXCEPT ![r] = [IdleReq EXCEPT !.op = "test", !.pc = "notify",
                                                 !.notifies = 1]]
    /\ call' = [call EXCEPT ![r] = send_slack_alert(test_alert)]
    /\ UNCHANGED <<config, meta, now, alerts, history, lpc, lidx, metrics, cycle, wake, span,
                   resolved_sent>>

\* {"message": "Test notification sent"}
TestReturn(r) ==
    /\ req[r].op = "test"
    /\ req[r].pc = "notify"
    /\ MayRun(r)
    /\ call[r].state = "done"
    /\ req' = [req EXCEPT ![r] = [@ EXCEPT !.pc = "done", !.resp = 200]]
    /\ UNCHANGED <<config, meta, now, alerts, history, lpc, lidx, metrics, cycle, call, wake,
                   span, resolved_sent>>

\* "order_by(metrics_history_table.c.timestamp.desc())": the newest row first,
\* rows of one timestamp in the order of their ids.
RECURSIVE OrderByTimestampDesc(_)
OrderByTimestampDesc(rows) ==
    IF rows = <<>> THEN <<>>
    ELSE LET first == CHOOSE i \in DOMAIN rows :
                          \A j \in DOMAIN rows :
                              \/ rows[j].timestamp < rows[i].timestamp
                              \/ rows[j].timestamp = rows[i].timestamp /\ i <= j
             rest == [k \in 1..(Len(rows) - 1) |->
                          IF k < first THEN rows[k] ELSE rows[k + 1]]
         IN <<rows[first]>> \o OrderByTimestampDesc(rest)

\* "where(metrics_history_table.c.timestamp > cutoff_time)"
SelectSince(rows, cutoff_time) ==
    OrderByTimestampDesc(SelectSeq(rows, LAMBDA row : row.timestamp > cutoff_time))

\* Windows a client asks for, in minutes.
QueryMinutes == {1, 2}

\* GET /api/metrics/history?minutes=...: get_metrics_history computes
\* "cutoff_time = datetime.utcnow() - timedelta(minutes=minutes)", builds the
\* query and suspends in "await database.fetch_all(query)".
HistoryStart(r, minutes) ==
    /\ Free(r)
    /\ req' = [req EXCEPT ![r] =
                 [IdleReq EXCEPT !.op = "history", !.pc = "select",
                                 !.cutoff_time = UtcNow - minutes * SecondsPerMinute]]
    /\ call' = [call EXCEPT ![r] = IdleCall]
    /\ UNCHANGED <<config, meta, now, alerts, history, lpc, lidx, metrics, cycle, wake, span,
                   resolved_sent>>

\* The rows were fetched and are returned.
HistoryFetchAll(r) ==
    /\ req[r].pc = "select"
    /\ MayRun(r)
    /\ req' = [req EXCEPT ![r] =
                 [@ EXCEPT !.pc = "done", !.resp = 200,
                           !.results = SelectSince(history, req[r].cutoff_time)]]
    /\ UNCHANGED <<config, meta, now, alerts, history, lpc, lidx, metrics, cycle, call, wake,
                   span, resolved_sent>>

\* database.fetch_all raised: HTTPException(500).
HistoryStoreError(r) ==
    /\ req[r].pc = "select"
    /\ MayRun(r)
    /\ req' = [req EXCEPT ![r] = [@ EXCEPT !.pc = "done", !.raised = "StoreError",
                                            !.resp = 500]]
    /\ UNCHANGED <<config, meta, now, alerts, history, lpc, lidx, metrics, cycle, call, wake,
                   span, resolved_sent>>

\* ---------------------------------------------------------------- metadata
\* Request bodies of POST /api/metadata.
MetaNames == {"web", "db"}
MetaEnvironments == {"production", "staging"}
MetaBodies ==
    {[name |-> n, environment |-> e, location |-> "us-east"] :
        n \in MetaNames, e \in MetaEnvironments}

\* "metadata_table.select().where(metadata_table.c.name == metadata.name)",
\* fetch_one: a row or None.
Existing(rows, name) == \E i \in DOMAIN rows : rows[i].name = name

\* "metadata_table.update().where(name == metadata.name)
\*  .values(**metadata.dict())"
UpdateByName(rows, body) ==
    [i \in DOMAIN rows |-> IF rows[i].name = body.name THEN body ELSE rows[i]]

MetaHasRoom == Len(metadata_table) < MaxMeta

\* POST /api/metadata is routed to update_metadata, which builds the select
\* and suspends in "await database.fetch_one(select_query)".
MetaStart(q, body) ==
    /\ mreq[q].pc = "idle"
    /\ lpc # "Idle"
    /\ Running = {}
    /\ mreq' = [mreq EXCEPT ![q] = [IdleMeta EXCEPT !.pc = "select", !.body = body]]
    /\ UNCHANGED <<config, metadata_table, now, alerts, history, lpc, lidx, metrics,
                   cycle, call, req, wake, span, resolved_sent>>

\* The lookup answered: "if existing:" builds the update, else the insert, and
\* the handler suspends in "await database.execute(query)".
MetaSelect(q) ==
    /\ mreq[q].pc = "select"
    /\ MayRun(q)
    /\ LET existing == Existing(metadata_table, mreq[q].body.name)
       IN mreq' = [mreq EXCEPT ![q] =
                     [@ EXCEPT !.existing = existing,
                               !.pc = IF existing THEN "update" ELSE "insert"]]
    /\ UNCHANGED <<config, metadata_table, now, alerts, history, lpc, lidx, metrics,
                   cycle, call, req, wake, span, resolved_sent>>

\* {"message": "Metadata updated successfully"}
MetaUpdate(q) ==
    /\ mreq[q].pc = "update"
    /\ MayRun(q)
    /\ metadata_table' = UpdateByName(metadata_table, mreq[q].body)
    /\ mreq' = [mreq EXCEPT ![q] = [@ EXCEPT !.pc = "done", !.resp = 200]]
    /\ UNCHANGED <<config, now, alerts, history, lpc, lidx, metrics,
                   cycle, call, req, wake, span, resolved_sent>>

\* {"message": "Metadata created successfully"}
MetaInsert(q) ==
    /\ mreq[q].pc = "insert"
    /\ MayRun(q)
    /\ MetaHasRoom
    /\ metadata_table' = Append(metadata_table, mreq[q].body)
    /\ mreq' = [mreq EXCEPT ![q] = [@ EXCEPT !.pc = "done", !.resp = 200]]
    /\ UNCHANGED <<config, now, alerts, history, lpc, lidx, metrics,
                   cycle, call, req, wake, span, resolved_sent>>

\* A store operation of the handler raised: HTTPException(500).
MetaStoreError(q) ==
    /\ mreq[q].pc \in {"select", "update", "insert"}
    /\ MayRun(q)
    /\ mreq' = [mreq EXCEPT ![q] = [@ EXCEPT !.pc = "done", !.resp = 500]]
    /\ UNCHANGED <<config, metadata_table, now, alerts, history, lpc, lidx, metrics,
                   cycle, call, req, wake, span, resolved_sent>>

\* The response is sent and the handler's task ends.
MetaRespond(q) ==
    /\ mreq[q].pc = "done"
    /\ MayRun(q)
    /\ mreq' = [mreq EXCEPT ![q] = IdleMeta]
    /\ UNCHANGED <<config, metadata_table, now, alerts, history, lpc, lidx, metrics,
                   cycle, call, req, wake, span, resolved_sent>>

\* The response is sent and the handler's task ends.
Respond(r) ==
    /\ req[r].pc = "done"
    /\ MayRun(r)
    /\ req' = [req EXCEPT ![r] = IdleReq]
    /\ call' = [call EXCEPT ![r] = IdleCall]
    /\ UNCHANGED <<config, meta, now, alerts, history, lpc, lidx, metrics, cycle, wake, span,
                   resolved_sent>>

\* ---------------------------------------------------------- specification
Init ==
    /\ environ = "valid"
    /\ utcoffset = 0
    /\ now = 0
    /\ wake = NoTimers
    /\ span = [started |-> 0, ended |-> 0]
    /\ resolved_sent = {}
    /\ metadata_table = <<>>
    /\ mreq = [q \in MetaReqs |-> IdleMeta]
    /\ thresholds \in ThresholdConfigs
    /\ webhook \in BOOLEAN
    /\ alerts = <<>>
    /\ history = <<>>
    /\ lpc = "Idle"
    /\ lidx = 1
    /\ metrics = NoMetrics
    /\ cycle = <<>>
    /\ call = [t \in Tasks |-> IdleCall]
    /\ req = [r \in Reqs |-> IdleReq]

LoopNext ==
    \/ Startup
    \/ SampleOk
    \/ SampleFail
    \/ Evaluate
    \/ CreateInsertOk
    \/ CreateInsertFail
    \/ CreateReturn
    \/ PersistOk
    \/ PersistFail
    \/ Suspend
    \/ Sleep
    \/ NotifyPost("loop")
    \/ NotifyRetry("loop")
    \/ NotifyExcept("loop")

ReqNext ==
    \/ \E r \in Reqs, id \in AlertIds : ResolveStart(r, id)
    \/ \E r \in Reqs : ResolveUpdate(r)
    \/ \E r \in Reqs : ResolveStoreError(r)
    \/ \E r \in Reqs : ResolveFetch(r)
    \/ \E r \in Reqs : ResolveReturn(r)
    \/ \E r \in Reqs : TestStart(r)
    \/ \E r \in Reqs : TestReturn(r)
    \/ \E r \in Reqs : Respond(r)
    \/ \E r \in Reqs : NotifyPost(r)
    \/ \E r \in Reqs : NotifyRetry(r)
    \/ \E r \in Reqs : NotifyExcept(r)

Next == LoopNext \/ ReqNext

Spec == Init /\ [][Next]_vars

\* What the event loop guarantees.  A handler that was started is run to its
\* end: every store operation answers or raises, requests.post returns within
\* its timeout, every sleep ends.  The monitoring task cannot run while a
\* handler holds the event loop, but it is resumed whenever it is ready and
\* the event loop is free, however many requests arrive.  No request has to
\* arrive.
ReqStep ==
    \E r \in Reqs :
        \/ ResolveUpdate(r)
        \/ ResolveFetch(r)
        \/ ResolveReturn(r)
        \/ TestReturn(r)
        \/ Respond(r)
        \/ NotifyPost(r)
        \/ NotifyRetry(r)
        \/ NotifyExcept(r)

Fairness == SF_vars(LoopNext) /\ WF_vars(ReqStep)

FairSpec == Init /\ [][Next]_vars /\ Fairness

\* The program with its clock: the monitoring task and the history query.  A
\* sleep ends when its time is over (in Spec a sleep may end at any moment and
\* the clock stands still).
UtcOffsets == {-3600, 0, 3600}

TimeInit ==
    /\ environ = "valid"
    /\ utcoffset \in UtcOffsets
    /\ now = 0
    /\ wake = NoTimers
    /\ span = [started |-> 0, ended |-> 0]
    /\ resolved_sent = {}
    /\ metadata_table = <<>>
    /\ mreq = [q \in MetaReqs |-> IdleMeta]
    /\ thresholds = [CPU |-> CPU_THRESHOLD, Memory |-> MEMORY_THRESHOLD,
                     Disk |-> DISK_THRESHOLD]
    /\ webhook = TRUE
    /\ alerts = <<>>
    /\ history = <<>>
    /\ lpc = "Idle"
    /\ lidx = 1
    /\ metrics = NoMetrics
    /\ cycle = <<>>
    /\ call = [t \in Tasks |-> IdleCall]
    /\ req = [r \in Reqs |-> IdleReq]

TimeNext ==
    \/ Startup
    \/ SampleOk
    \/ SampleFail
    \/ Evaluate
    \/ CreateInsertOk
    \/ CreateInsertFail
    \/ CreateReturn
    \/ PersistOk
    \/ PersistFail
    \/ Suspend
    \/ SleepElapsed
    \/ NotifyPost("loop")
    \/ NotifyRetryElapsed("loop")
    \/ NotifyExcept("loop")
    \/ Elapse
    \/ \E r \in Reqs, minutes \in QueryMinutes : HistoryStart(r, minutes)
    \/ \E r \in Reqs : HistoryFetchAll(r)
    \/ \E r \in Reqs : HistoryStoreError(r)
    \/ \E r \in Reqs : Respond(r)

TimeSpec == TimeInit /\ [][TimeNext]_vars

\* The monitoring task under every environment: a threshold that float()
\* rejects, a SLACK_WEBHOOK_URL that is no URL (it is set, and never looked
\* at before requests.post gets it), or neither.
Environments == {"valid", "bad_threshold", "bad_webhook"}

ConfigInit ==
    /\ environ \in Environments
    /\ utcoffset = 0
    /\ now = 0
    /\ wake = NoTimers
    /\ span = [started |-> 0, ended |-> 0]
    /\ resolved_sent = {}
    /\ metadata_table = <<>>
    /\ mreq = [q \in MetaReqs |-> IdleMeta]
    /\ thresholds \in ThresholdConfigs
    /\ webhook \in BOOLEAN
    /\ environ = "bad_webhook" => webhook
    /\ alerts = <<>>
    /\ history = <<>>
    /\ lpc = "Idle"
    /\ lidx = 1
    /\ metrics = NoMetrics
    /\ cycle = <<>>
    /\ call = [t \in Tasks |-> IdleCall]
    /\ req = [r \in Reqs |-> IdleReq]

ConfigSpec == ConfigInit /\ [][LoopNext]_vars

\* The metadata handlers, served while the monitoring task is in the sleep
\* that follows its first cycle (a cycle whose sampling failed: nothing is
\* stored).
MetaInit ==
    /\ environ = "valid"
    /\ utcoffset = 0
    /\ now = 0
    /\ wake = [NoTimers EXCEPT !["loop"] = SleepInterval]
    /\ span = [started |-> 0, ended |-> 0]
    /\ resolved_sent = {}
    /\ metadata_table = <<>>
    /\ mreq = [q \in MetaReqs |-> IdleMeta]
    /\ thresholds \in ThresholdConfigs
    /\ webhook \in BOOLEAN
    /\ alerts = <<>>
    /\ history = <<>>
    /\ lpc = "Suspended"
    /\ lidx = 1
    /\ metrics = NoMetrics
    /\ cycle = <<>>
    /\ call = [t \in Tasks |-> IdleCall]
    /\ req = [r \in Reqs |-> IdleReq]

MetaNext ==
    \/ \E q \in MetaReqs, body \in MetaBodies : MetaStart(q, body)
    \/ \E q \in MetaReqs : MetaSelect(q)
    \/ \E q \in MetaReqs : MetaUpdate(q)
    \/ \E q \in MetaReqs : MetaInsert(q)
    \/ \E q \in MetaReqs : MetaStoreError(q)
    \/ \E q \in MetaReqs : MetaRespond(q)

MetaSpec == MetaInit /\ [][MetaNext]_vars

\* ------------------------------------------------------------------ claims
Finished(c) == c.state \in {"done", "escaped"}

AllFailed(c) == \A i \in 1..Len(c.trace) : c.trace[i] # "post_ok"

\* C1: with a webhook configured, a send_slack_alert call whose every POST
\* failed has, once it is over, made exactly 3 POST attempts, slept 1 unit
\* after the first and after the second and not after the third, and has
\* returned to its caller (no exception left the function).
C1_RetryBound ==
    \A t \in Tasks :
        (webhook /\ Finished(call[t]) /\ AllFailed(call[t]))
            => /\ call[t].trace = <<"post_fail", "sleep", "post_fail", "sleep", "post_fail">>
               /\ call[t].slept = 2
               /\ call[t].state = "done"

C1_Witness ==
    \E t \in Tasks :
        /\ webhook
        /\ call[t].state = "done"
        /\ call[t].trace = <<"post_fail", "sleep", "post_fail", "sleep", "post_fail">>

\* C2: the monitoring loop never stops.  Whatever fails in a cycle (the
\* sampling, an alert insert, the notification, the history insert), the
\* cycle reaches Sleeping, and another Sampling step follows: Sampling happens
\* infinitely often.
C2_LoopNeverStops ==
    /\ []<>(lpc = "Sampling")
    /\ (lpc = "Sampling") ~> (lpc = "Sleeping")

\* A cycle in which an insert and the notification failed and the history
\* insert failed too has reached Sleeping.
C2_Witness ==
    /\ lpc = "Sleeping"
    /\ \E i \in 1..Len(cycle) : cycle[i].op = "insert" /\ ~cycle[i].ok
    /\ \E i \in 1..Len(cycle) : cycle[i].op = "notify" /\ ~cycle[i].ok
    /\ cycle[Len(cycle)].op = "append" /\ ~cycle[Len(cycle)].ok

\* The metrics create_alert was called for in the current cycle, in order.
InsertEvents == SelectSeq(cycle, LAMBDA e : e.op = "insert")
HandledMetrics == [i \in 1..Len(InsertEvents) |-> InsertEvents[i].metric_type]

\* The metrics of the sample that are strictly above their threshold, in the
\* order CPU, Memory, Disk.
StrictlyAbove ==
    SelectSeq(<<"CPU", "Memory", "Disk">>, LAMBDA m : metrics[m] > thresholds[m])

\* C3: in a cycle that got its sample, create_alert is called exactly for the
\* metrics whose percent is strictly greater than the threshold, once each, in
\* the order CPU, Memory, Disk; a row enters the alert table only for such a
\* metric, as an active alert with that threshold and that percent; so a
\* sample with no percent above its threshold creates no alert.
C3_BreachesHandled ==
    /\ []((lpc = "Sleeping" /\ cycle[1].ok) => HandledMetrics = StrictlyAbove)
    /\ [][Len(alerts') # Len(alerts) =>
            \E m \in {"CPU", "Memory", "Disk"} :
                /\ metrics[m] > thresholds[m]
                /\ alerts' = Append(alerts, [metric_type |-> m,
                                             threshold |-> thresholds[m],
                                             current_value |-> metrics[m],
                                             status |-> "active"])]_vars

\* cpu 90 / memory 50 / disk 50 under 80 / 85 / 90: one active CPU alert with
\* threshold 80 and current_value 90, and one history row with cpu_percent 90.
C3_Witness ==
    /\ lpc = "Sleeping"
    /\ metrics = Sample(90, 50, 50)
    /\ thresholds = [CPU |-> 80, Memory |-> 85, Disk |-> 90]
    /\ HandledMetrics = <<"CPU">>
    /\ alerts = <<[metric_type |-> "CPU", threshold |-> 80, current_value |-> 90,
                   status |-> "active"]>>
    /\ Len(history) = 1 /\ history[1].cpu_percent = 90

\* The places of the history inserts in the log of the current cycle.
AppendEvents == {i \in 1..Len(cycle) : cycle[i].op = "append"}

HistoryRow(s) ==
    [timestamp |-> now + utcoffset, cpu_percent |-> s["CPU"],
     memory_percent |-> s["Memory"], disk_percent |-> s["Disk"]]

\* C4: a cycle that got its sample makes exactly one history insert, of that
\* sample; it is the last step of the cycle, after every breach of the sample
\* has been handled, whatever became of the alert inserts and notifications.
C4_HistoryAppend ==
    /\ Cardinality(AppendEvents) <= 1
    /\ \A i \in AppendEvents :
          /\ i = Len(cycle)
          /\ HandledMetrics = StrictlyAbove
          /\ cycle[i].ok => (Len(history) > 0 /\ history[Len(history)] = HistoryRow(metrics))
    /\ (lpc = "Sleeping" /\ cycle[1].ok) => Cardinality(AppendEvents) = 1

\* A cycle in which an alert insert failed and all three POSTs of a
\* notification failed, and whose sample was stored.
C4_Witness ==
    /\ lpc = "Sleeping"
    /\ \E i \in 1..Len(cycle) : cycle[i].op = "insert" /\ ~cycle[i].ok
    /\ \E i \in 1..Len(cycle) : cycle[i].op = "notify" /\ ~cycle[i].ok
    /\ cycle[Len(cycle)].op = "append" /\ cycle[Len(cycle)].ok
    /\ history[Len(history)] = HistoryRow(metrics)

ResolveOver(r) == req[r].op = "resolve" /\ req[r].pc = "done"

\* C5: when no store operation fails, resolving an existing active alert
\* answers success (200), leaves the alert resolved, and calls
\* send_slack_alert exactly once, with status resolved and the alert's id,
\* metric_type, threshold and current_value.
C5_ResolveActive ==
    \A r \in Reqs :
        (ResolveOver(r) /\ req[r].prior = "active" /\ req[r].raised # "StoreError")
            => /\ req[r].resp = 200
               /\ alerts[req[r].alert_id].status = "resolved"
               /\ req[r].notifies = 1
               /\ call[r].state = "done"
               /\ call[r].alert_data =
                      [id |-> req[r].alert_id,
                       metric_type |-> alerts[req[r].alert_id].metric_type,
                       threshold |-> alerts[req[r].alert_id].threshold,
                       current_value |-> alerts[req[r].alert_id].current_value,
                       status |-> "resolved"]

C5_Witness ==
    \E r \in Reqs :
        /\ ResolveOver(r)
        /\ req[r].prior = "active"
        /\ req[r].resp = 200
        /\ call[r].alert_data.status = "resolved"
        /\ call[r].trace = <<"post_ok">>

\* C6: resolving an alert that is already resolved reports no success, raises
\* nothing (the not-found answer, 404), and calls send_slack_alert not at all.
C6_ResolvedIsNoOp ==
    \A r \in Reqs :
        (req[r].op = "resolve" /\ req[r].prior = "resolved")
            => /\ req[r].notifies = 0
               /\ (req[r].pc = "done" /\ req[r].raised # "StoreError") => req[r].resp = 404

\* C7: resolving an id that is not in the alert table answers not found (404),
\* not an error (500), and calls send_slack_alert not at all.
C7_AbsentIsNotFound ==
    \A r \in Reqs :
        (ResolveOver(r) /\ req[r].prior = "absent" /\ req[r].raised # "StoreError")
            => /\ req[r].resp = 404
               /\ req[r].notifies = 0

\* C8: without a webhook URL no send_slack_alert call, by whichever caller,
\* makes a POST or sleeps, and every call returns.
C8_NoWebhookNoPost ==
    ~webhook =>
        \A t \in Tasks :
            /\ call[t].trace = <<>>
            /\ call[t].slept = 0
            /\ call[t].state \in {"idle", "done"}

\* Without a webhook URL, the call made by resolve_alert has returned.
C8_Witness ==
    /\ ~webhook
    /\ \E r \in Reqs :
          /\ req[r].op = "resolve"
          /\ req[r].notifies = 1
          /\ call[r].state = "done"
          /\ call[r].alert_data.status = "resolved"

\* C9: a row enters the alert table with status active, a status is always
\* active or resolved, and a resolved alert stays resolved: the only change of
\* status is from active to resolved.
C9_AlertLifecycle ==
    [][\A i \in DOMAIN alerts' :
          /\ alerts'[i].status \in {"active", "resolved"}
          /\ i \notin DOMAIN alerts => alerts'[i].status = "active"
          /\ (i \in DOMAIN alerts /\ alerts[i].status = "resolved")
                => alerts'[i].status = "resolved"]_vars

\* A resolved alert is resolved again while another alert is active.
C9_Witness ==
    /\ Len(alerts) = 2
    /\ alerts[1].status = "resolved"
    /\ alerts[2].status = "active"
    /\ \E r \in Reqs : ResolveOver(r) /\ req[r].alert_id = 1 /\ req[r].prior = "resolved"

\* C10: while the monitoring loop is in a send_slack_alert call, the alert it
\* notifies about is a row of the alert table, stored by the insert that
\* precedes the call; a notification of the cycle always follows a successful
\* insert for the same metric, so a failed insert is followed by none.
C10_PersistBeforeNotify ==
    /\ call["loop"].state # "idle" =>
          LET d == call["loop"].alert_data
              e == cycle[Len(cycle)]
          IN /\ d.status = "active"
             /\ e = Event("insert", d.metric_type, TRUE, d.id)
             /\ d.id \in DOMAIN alerts
             /\ alerts[d.id].metric_type = d.metric_type
             /\ alerts[d.id].threshold = d.threshold
             /\ alerts[d.id].current_value = d.current_value
    /\ \A i \in 1..Len(cycle) :
          cycle[i].op = "notify" =>
              /\ i > 1
              /\ cycle[i - 1] = Event("insert", cycle[i].metric_type, TRUE, cycle[i].id)
    /\ \A i \in 1..Len(cycle) :
          (cycle[i].op = "insert" /\ ~cycle[i].ok /\ i < Len(cycle))
              => cycle[i + 1].op # "notify"

\* The second POST of the notification of a stored alert has failed; an insert
\* failed earlier in the cycle.
C10_Witness ==
    /\ call["loop"].trace = <<"post_fail", "sleep", "post_fail">>
    /\ call["loop"].alert_data.id \in DOMAIN alerts
    /\ \E i \in 1..Len(cycle) : cycle[i].op = "insert" /\ ~cycle[i].ok

\* When a row of the history table was appended: store_historical_metrics
\* stamps it with the local time of that moment.
AppendedAt(row) == row.timestamp - utcoffset

HistoryOver(r) == req[r].op = "history" /\ req[r].pc = "done" /\ req[r].resp = 200

\* C11: a history query returns exactly the samples appended later than its
\* cutoff (the time of the query minus the window), the newest first: with
\* samples appended 90 and 30 seconds before a query over the last 60 seconds,
\* only the second is returned.
C11_HistorySince ==
    \A r \in Reqs :
        HistoryOver(r) =>
            LET res == req[r].results IN
            /\ \A i \in DOMAIN history :
                  (AppendedAt(history[i]) > req[r].cutoff_time)
                      <=> (\E k \in DOMAIN res : res[k] = history[i])
            /\ \A k \in DOMAIN res : \E i \in DOMAIN history : res[k] = history[i]
            /\ \A k \in 1..(Len(res) - 1) : res[k].timestamp >= res[k + 1].timestamp

\* The same on a host whose local time is UTC.
C11_HistorySinceUtc == utcoffset = 0 => C11_HistorySince

\* Samples appended at 0 and 60, a query at 90 over the last minute.
C11_Scenario ==
    \E r \in Reqs :
        /\ HistoryOver(r)
        /\ now = 90
        /\ req[r].cutoff_time = 30
        /\ Len(history) = 2
        /\ AppendedAt(history[1]) = 0
        /\ AppendedAt(history[2]) = 60

\* C12: a configuration error, an invalid threshold or a malformed webhook
\* URL, is detected at startup and keeps the monitoring loop from starting:
\* under such a configuration the loop never reaches Sampling.
C12_ConfigErrorStopsStart == environ # "valid" => lpc = "Idle"

\* The same for an invalid threshold alone.
C12_BadThresholdStopsStart == environ = "bad_threshold" => lpc = "Idle"

\* The places of the POSTs, of the failed POSTs and of the sleeps in a trace.
Posts(tr) == {i \in 1..Len(tr) : tr[i] \in {"post_ok", "post_fail"}}
FailedPosts(tr) == {i \in 1..Len(tr) : tr[i] = "post_fail"}
Sleeps(tr) == {i \in 1..Len(tr) : tr[i] = "sleep"}

\* C13: with a webhook configured and whatever the outcomes of the attempts,
\* a send_slack_alert call makes k POSTs, k being the place of the first
\* successful attempt, or 3 when none succeeds; nothing follows a success; and
\* it sleeps 1 unit once for every failed attempt that is not the third, so
\* twice at most.
C13_AttemptCount ==
    \A t \in Tasks :
        (webhook /\ call[t].state # "idle") =>
            LET tr == call[t].trace
                k == Cardinality(Posts(tr))
                f == Cardinality(FailedPosts(tr))
            IN /\ \A i \in 1..Len(tr) : tr[i] = "post_ok" => i = Len(tr)
               /\ k <= 3
               /\ Finished(call[t]) =>
                     /\ k = IF AllFailed(call[t]) THEN 3 ELSE f + 1
                     /\ Cardinality(Sleeps(tr)) = IF f = 3 THEN 2 ELSE f
                     /\ call[t].slept = Cardinality(Sleeps(tr))
                     /\ call[t].slept <= 2

\* The second attempt succeeded: two POSTs and one sleep.
C13_Witness ==
    \E t \in Tasks :
        /\ webhook
        /\ call[t].state = "done"
        /\ call[t].trace = <<"post_fail", "sleep", "post_ok">>

\* The cycle in progress could not get its sample.
SamplingFailed == Len(cycle) > 0 /\ ~cycle[1].ok

\* C14: when get_system_metrics fails the cycle goes straight to Sleeping: it
\* creates no alert, calls send_slack_alert not at all and appends no history
\* row, and no step the monitoring task takes in that cycle changes the alert
\* table or the history table.
C14_SampleFailSkipsCycle ==
    /\ [](SamplingFailed =>
            /\ lpc = "Sleeping"
            /\ cycle = <<Event("sample", "", FALSE, 0)>>
            /\ call["loop"] = IdleCall)
    /\ [][((lpc = "Sampling" /\ SamplingFailed') \/ (SamplingFailed /\ lpc' # lpc))
            => (alerts' = alerts /\ history' = history)]_vars

\* The sampling of a cycle fails while the alert table holds a row of an
\* earlier cycle.
C14_Witness ==
    /\ SamplingFailed
    /\ lpc = "Sleeping"
    /\ Len(alerts) = 1
    /\ Len(history) = 1

\* The place of a metric in the order of the checks.
Place(m) == CHOOSE k \in 1..3 : <<"CPU", "Memory", "Disk">>[k] = m

\* An insert that failed or a notification that was not delivered.
Failure(e) == e.op \in {"insert", "notify"} /\ ~e.ok

\* C15: the breaches of one cycle are handled independently.  After a failed
\* alert insert or an undelivered notification for one metric, create_alert
\* is still called for every later metric of the sample that is above its
\* threshold, and send_slack_alert is called for each of those whose insert
\* succeeds.
C15_BreachesIndependent ==
    (lpc = "Sleeping" /\ cycle[1].ok) =>
        \A i \in 1..Len(cycle) :
            Failure(cycle[i]) =>
                \A m \in {"CPU", "Memory", "Disk"} :
                    (metrics[m] > thresholds[m] /\ Place(m) > Place(cycle[i].metric_type))
                        => \E j \in (i + 1)..Len(cycle) :
                              /\ cycle[j].op = "insert"
                              /\ cycle[j].metric_type = m
                              /\ cycle[j].ok =>
                                    /\ j < Len(cycle)
                                    /\ cycle[j + 1].op = "notify"
                                    /\ cycle[j + 1].metric_type = m
                                    /\ cycle[j + 1].id = cycle[j].id

\* All three metrics breach: the CPU notification is not delivered, the Memory
\* insert fails, and the Disk alert is stored and its notification delivered.
C15_Witness ==
    /\ lpc = "Sleeping"
    /\ \E i, j, k \in 1..Len(cycle) :
          /\ i < j /\ j < k
          /\ cycle[i].op = "notify" /\ cycle[i].metric_type = "CPU" /\ ~cycle[i].ok
          /\ cycle[j].op = "insert" /\ cycle[j].metric_type = "Memory" /\ ~cycle[j].ok
          /\ cycle[k].op = "notify" /\ cycle[k].metric_type = "Disk" /\ cycle[k].ok

\* The rows of the alert table of one metric.
AlertsOf(rows, m) == {i \in DOMAIN rows : rows[i].metric_type = m}

\* C16: alerts are not deduplicated.  A check that finds its metric above the
\* threshold calls create_alert whatever alerts of that metric, active or
\* resolved, are stored; every successful insert adds a row with a new id and
\* status active and touches no other row; and no row ever leaves the table
\* or changes its metric: N breaching cycles whose inserts succeed leave N
\* alerts of the metric.
C16_NoDeduplication ==
    /\ [][\A k \in 1..3 :
            LET m == <<"CPU", "Memory", "Disk">>[k] IN
            (lpc = "Evaluating" /\ lidx = k /\ metrics[m] > thresholds[m]
                /\ <<lpc, lidx>>' # <<lpc, lidx>>)
                => (lpc' = "Creating" /\ lidx' = k)]_vars
    /\ [][(lpc = "Creating" /\ lpc' = "Notifying") =>
            LET m == <<"CPU", "Memory", "Disk">>[lidx] IN
            /\ Len(alerts') = Len(alerts) + 1
            /\ AlertsOf(alerts', m) = AlertsOf(alerts, m) \cup {Len(alerts')}
            /\ alerts'[Len(alerts')].status = "active"
            /\ \A i \in DOMAIN alerts : alerts'[i] = alerts[i]]_vars
    /\ [][/\ Len(alerts') >= Len(alerts)
          /\ \A i \in DOMAIN alerts :
                alerts'[i].metric_type = alerts[i].metric_type]_vars

\* The second of two CPU alerts has just been stored: the first is still
\* active.
C16_Witness ==
    /\ lpc = "Notifying"
    /\ Len(alerts) = 2
    /\ AlertsOf(alerts, "CPU") = {1, 2}
    /\ alerts[1].status = "active"
    /\ alerts[2].status = "active"
    /\ cycle[Len(cycle)] = Event("insert", "CPU", TRUE, 2)

\* The monitoring task is inside a cycle.
InCycle == lpc \notin {"Idle", "Suspended"}

\* C17: cycles do not overlap and are separated by the full sleep.  A cycle
\* starts (the task enters Sampling) either at startup or out of the sleep
\* that followed the end of the previous cycle, and then 60 seconds at least
\* after that end, however long the notifications of the previous cycle have
\* taken; the cycle in progress has started after the previous one ended, and
\* while the task sleeps no cycle is in progress.
C17_CyclesApart ==
    /\ [][(lpc' = "Sampling" /\ lpc # "Sampling") =>
            \/ lpc = "Idle"
            \/ lpc = "Suspended" /\ now' >= span.ended + 60]_vars
    /\ [](InCycle => (span.ended <= span.started /\ span.started <= now))
    /\ [](lpc = "Suspended" =>
            (span.started <= span.ended /\ call["loop"] = IdleCall /\ cycle = <<>>))

\* The first cycle started at 0 and ended at 2, after two retry sleeps; the
\* second starts at 62.
C17_Witness ==
    /\ lpc = "Sampling"
    /\ span.ended = 2
    /\ span.started = 62
    /\ now = 62

\* Task t takes a step inside send_slack_alert.
NotifierStep(t) ==
    /\ call[t].state \in {"posting", "sleeping", "raised"}
    /\ call'[t] # call[t]

\* C18: a send_slack_alert call changes no stored state, for every caller and
\* every outcome, and its caller goes on as after a delivery: create_alert
\* returns to the cycle with the table as it was (the new alert stays as
\* stored), resolve_alert answers 200 with the alert resolved, and
\* test_notification answers 200.
C18_NotifyChangesNothing ==
    /\ [][\A t \in Tasks :
            NotifierStep(t) => (alerts' = alerts /\ history' = history)]_vars
    /\ [][(lpc = "Notifying" /\ lpc' # "Notifying") =>
            /\ alerts' = alerts
            /\ history' = history
            /\ cycle'[Len(cycle')].id \in DOMAIN alerts'
            /\ lpc' = IF lidx < 3 THEN "Evaluating" ELSE "Persisting"]_vars
    /\ [](\A r \in Reqs :
            (req[r].pc = "done" /\ req[r].notifies = 1) =>
                /\ req[r].resp = 200
                /\ req[r].op = "resolve" => alerts[req[r].alert_id].status = "resolved")

\* resolve_alert has answered 200 although all three POSTs failed.
C18_Witness ==
    \E r \in Reqs :
        /\ ResolveOver(r)
        /\ req[r].resp = 200
        /\ call[r].trace = <<"post_fail", "sleep", "post_fail", "sleep", "post_fail">>
        /\ alerts[req[r].alert_id].status = "resolved"

\* C19: under every interleaving of the monitoring task and a resolve
\* request, the resolve answers success only for an id whose insert had
\* completed when its UPDATE ran, and it neither changes nor reads a row
\* before that: for an id that is not stored yet the UPDATE changes nothing,
\* no notification is built and the answer is no success.
C19_ResolveAfterCreate ==
    /\ [](\A r \in Reqs :
            req[r].op = "resolve" =>
                /\ (req[r].pc = "done" /\ req[r].resp = 200) =>
                      /\ req[r].prior \in {"active", "resolved"}
                      /\ req[r].alert_id \in DOMAIN alerts
                /\ call[r].state # "idle" =>
                      /\ call[r].alert_data.id = req[r].alert_id
                      /\ req[r].alert_id \in DOMAIN alerts
                      /\ call[r].alert_data.metric_type = alerts[req[r].alert_id].metric_type)
    /\ [][\A r \in Reqs :
            (req[r].op = "resolve" /\ req[r].pc = "update" /\ req'[r].pc # "update"
                /\ req[r].alert_id \notin DOMAIN alerts)
                => /\ alerts' = alerts
                   /\ req'[r].pc = "done"
                   /\ req'[r].resp # 200
                   /\ req'[r].notifies = 0]_vars

\* A resolve of the id that the insert in progress is about to create has
\* been answered, without success, while create_alert still awaits the insert.
C19_Witness ==
    /\ lpc = "Creating"
    /\ \E r \in Reqs :
          /\ ResolveOver(r)
          /\ req[r].alert_id = Len(alerts) + 1
          /\ req[r].prior = "absent"
          /\ req[r].raised = "HTTPException(404)"

\* C20: for every alert, no notification with status active is delivered
\* after a notification with status resolved has been delivered for it,
\* whatever the interleaving of the retry sleeps of create_alert's
\* notification with a resolve request.
C20_NoActiveAfterResolved ==
    \A t \in Tasks :
        (call[t].state = "done" /\ Delivered(call[t]) /\ call[t].alert_data.status = "active")
            => call[t].alert_data.id \notin resolved_sent

\* C21: resolve_alert is all-or-nothing with respect to store errors: when
\* the call ends in an error because a store operation inside it failed, the
\* status of the alert it was asked to resolve is what it was before the call.
C21_ResolveAllOrNothing ==
    \A r \in Reqs :
        (ResolveOver(r) /\ req[r].raised = "StoreError"
            /\ req[r].prior \in {"active", "resolved"})
            => alerts[req[r].alert_id].status = req[r].prior

\* The same for a store error of the UPDATE itself, before which the handler
\* has done nothing.
C21_UpdateErrorChangesNothing ==
    [][\A r \in Reqs :
          (req[r].op = "resolve" /\ req[r].pc = "update"
              /\ req'[r].raised = "StoreError")
              => alerts' = alerts]_vars

\* C22: update_metadata keeps names unique: after any sequence or
\* interleaving of requests, each a lookup by name followed by an update if a
\* row was found and by an insert otherwise, the metadata table holds at most
\* one row per name.
C22_MetadataNamesUnique ==
    \A i, j \in DOMAIN metadata_table :
        metadata_table[i].name = metadata_table[j].name => i = j

====
